---- MODULE Spec2Model ----
(***************************************************************************)
(* Model of ModelHawkesSumExpCustomLag                                     *)
(* (hawkes_fixed_sumexpkern_lag_loglik_custom.cpp): data binding, the      *)
(* lazily computed weight cache (g, G, H1, H2, H3) filled by one task per  *)
(* modelled dimension, and the per-dimension loss / gradient tasks.        *)
(*                                                                         *)
(* Numbers.  Timestamps, lags and the horizon are integers.  Kernel u      *)
(* (0-based) has decay (u+1)*ln 2, so exp(-decay*d) = 2^(-(u+1)*d).  A     *)
(* value of g is kept as the bag of the delays d of its terms              *)
(* decay*exp(-decay*d); multiplying by exp(-decay*dt) shifts every delay   *)
(* by dt.  A value of G is kept as the triple (dt, carry, new) standing    *)
(* for (1-exp(-decay*dt))/decay * carry + sum over new of                  *)
(* (1-exp(-decay*d)).                                                      *)
(***************************************************************************)
EXTENDS Integers, Sequences, FiniteSets, Bags, TLC

\* ---------------------------------------------------------------- bounds
MaxTime == 2
MaxEvents == 2

\* Numbers of supplied streams (the last one is the state-driving stream).
StreamCounts == {2, 3}

\* Constructor argument _MaxN_of_f: size of the link-function table.
MaxN_of_f == 2

VARIABLES
  timestamps, n_jumps_per_node, n_total_jumps, n_nodes, end_time,
  weights_computed,
  lags, global_n, global_timestamps, type_n, Total_events,
  g, G, H1, H2, H3,
  pc, call, wtask, taskres, out, writes, ret,
  bind_status, bind_arg, weight_runs, oob

vars == << timestamps, n_jumps_per_node, n_total_jumps, n_nodes, end_time,
           weights_computed,
           lags, global_n, global_timestamps, type_n, Total_events,
           g, G, H1, H2, H3,
           pc, call, wtask, taskres, out, writes, ret,
           bind_status, bind_arg, weight_runs, oob >>

dataVars == << timestamps, n_jumps_per_node, n_total_jumps, n_nodes, end_time,
               global_n, global_timestamps, type_n >>
cacheVars == << g, G, H1, H2, H3 >>

\* ---------------------------------------------------------------- helpers
RECURSIVE SumSeq(_)
SumSeq(s) == IF s = << >> THEN 0 ELSE Head(s) + SumSeq(Tail(s))

IsSorted(s) == \A x \in 1..Len(s) - 1 : s[x] <= s[x + 1]

\* number of kernels, decays.size()
get_n_decays == Len(lags)

\* ---------------------------------------------------------------- set_data
\* ModelHawkesSingle::set_data rejects an unsorted stream.
BaseAccepts(streams) == \A d \in 1..Len(streams) : IsSorted(streams[d])

\* Lines 131-138: the events of stream j (code index j-1) are appended in
\* stream order, each carrying the label j.
RECURSIVE FlatFrom(_, _)
FlatFrom(streams, j) ==
  IF j > Len(streams) THEN << >>
  ELSE [x \in 1..Len(streams[j]) |-> << streams[j][x], j >>]
         \o FlatFrom(streams, j + 1)

\* global_timestamps before the sort: index 0 is left at 0 by init_to_zero.
PreTimes(streams) ==
  LET fl == FlatFrom(streams, 1)
  IN  [c \in 0..Len(fl) |-> IF c = 0 THEN 0 ELSE fl[c][1]]

\* tmp_pre_type_n: index 0 is 0, index c is the label of the c-th event.
PreTypes(streams) ==
  LET fl == FlatFrom(streams, 1)
  IN  [c \in 0..Len(fl) |-> IF c = 0 THEN 0 ELSE fl[c][2]]

\* Array::sort(index): position of element c after an increasing stable sort.
SortRank(a, c) ==
  Cardinality({c2 \in DOMAIN a : a[c2] < a[c] \/ (a[c2] = a[c] /\ c2 < c)})

\* tmp_index: the element that lands on position r.
SortIndex(a) ==
  [r \in DOMAIN a |-> CHOOSE c \in DOMAIN a : SortRank(a, c) = r]

SortedArray(a) == [r \in DOMAIN a |-> a[SortIndex(a)[r]]]

\* Lines 142-143: type_n[k] for k >= 1 through the sort permutation;
\* type_n[0] keeps the 0 of init_to_zero.
\* (Variant: the labels taken in concatenation order.)
TypeOfUnpermuted(pre, idx) == [k \in DOMAIN pre |-> pre[k]]
TypeOf(pre, idx) == [k \in DOMAIN pre |-> IF k = 0 THEN 0 ELSE pre[idx[k]]]

\* Lines 118-120: M+1 entries are copied from the supplied state sequence;
\* an entry past the end of a shorter sequence is whatever the read returns.
CopiedStates(gn, m, garbage) ==
  [k \in 0..m |-> IF k \in DOMAIN gn THEN gn[k] ELSE garbage]

set_data(streams, gn, T, garbage) ==
  /\ pc = "idle"
  /\ bind_arg' = Cardinality(DOMAIN gn)
  /\ IF ~BaseAccepts(streams)
       THEN /\ bind_status' = "InvalidState"
            /\ UNCHANGED << dataVars, weights_computed, Total_events,
                            cacheVars, weight_runs, ret >>
       ELSE LET m   == SumSeq([d \in 1..Len(streams) |-> Len(streams[d])])
                pre == PreTimes(streams)
                idx == SortIndex(pre)
            IN  /\ timestamps' = streams
                /\ n_jumps_per_node' = [d \in 1..Len(streams) |-> Len(streams[d])]
                /\ n_total_jumps' = m
                /\ end_time' = T
                /\ weights_computed' = FALSE
                /\ global_n' = CopiedStates(gn, m, garbage)
                /\ global_timestamps' = SortedArray(pre)
                /\ type_n' = TypeOf(PreTypes(streams), idx)
                /\ n_nodes' = Len(streams) - 1
                /\ bind_status' = "bound"
                /\ weight_runs' = 0
                /\ ret' = [kind |-> "none"]
                /\ UNCHANGED << Total_events, cacheVars >>
  /\ UNCHANGED << lags, pc, call, wtask, taskres, out, writes, oob >>

\* ---------------------------------------------------------------- inputs
SeqsUpTo(S, n) == UNION {[1..m -> S] : m \in 0..n}

AllStreams ==
  {s \in UNION {[1..ns -> SeqsUpTo(0..MaxTime, MaxEvents)] : ns \in StreamCounts} :
      SumSeq([d \in 1..Len(s) |-> Len(s[d])]) <= MaxEvents}

SortedStreams == {s \in AllStreams : BaseAccepts(s)}

EventCount(s) == SumSeq([d \in 1..Len(s) |-> Len(s[d])])

\* ---------------------------------------------------------------- weights
\* get_index lambda of compute_weights_dim_i / loss_dim_i / grad_dim_i.
get_index(k, j, u) == n_nodes * get_n_decays * k + get_n_decays * j + u

\* g(k-1) * exp(-decay * dt): every term's delay grows by dt.
ShiftBag(b, dt) == [d \in {x + dt : x \in DOMAIN b} |-> b[d - dt]]

\* (1 - ebt) / decay * carry + sum over new of (1 - exp(-decay * d)).
\* The first summand vanishes when dt = 0 (ebt = 1) or carry = 0.
GVal(dt, carry, new) ==
  IF dt = 0 \/ carry = EmptyBag
    THEN [dt |-> 0, carry |-> EmptyBag, new |-> new]
    ELSE [dt |-> dt, carry |-> carry, new |-> new]

GZero == GVal(0, EmptyBag, EmptyBag)

\* allocate_weights, lines 16-43: every buffer is created and zeroed.
AllocG == [x \in 0..(n_total_jumps + 2) * n_nodes * get_n_decays - 1 |-> EmptyBag]
AllocGi == [x \in 0..(n_total_jumps + 2) * n_nodes * get_n_decays - 1 |-> GZero]
AllocH == [n \in 0..MaxN_of_f - 1 |-> 0]
AllocH3 == [x \in 0..MaxN_of_f * get_n_decays - 1 |-> << >>]

\* Line 14.
TotalEventsOf == n_total_jumps - n_jumps_per_node[n_nodes + 1]

\* Line 63: the scan pointer of a (kernel, source dimension) pass.
FirstScanned == 1

TaskStart == [phase |-> "kern", u |-> 0, j |-> 0, k |-> 1, last |-> FirstScanned]

\* Line 74: the delay gate.  (Variant: a non-strict gate.)
GateOpenLeq(ts, lim) == ts <= lim
GateOpen(ts, lim) == ts < lim

\* Line 85: the scan stops once the pointer has passed the last event.
PastEnd(last) == last > n_total_jumps

\* Lines 74-87: the while loop of one step k.  lim = t_k - lag.  A read of
\* global_timestamps / type_n at an index outside 0..M returns gv / gty.
RECURSIVE Scan(_, _, _, _, _, _, _)
Scan(last, j, lim, acc, ob, gv, gty) ==
  LET inb == last \in 0..n_total_jumps
      ts  == IF inb THEN global_timestamps[last] ELSE gv
  IN  IF GateOpen(ts, lim)
        THEN LET ty   == IF inb THEN type_n[last] ELSE gty
                 acc2 == IF ty = j + 1 THEN acc (+) SetToBag({lim - ts}) ELSE acc
             IN  IF PastEnd(last + 1)
                   THEN [last |-> last + 1, folded |-> acc2, oob |-> ob \/ ~inb]
                   ELSE Scan(last + 1, j, lim, acc2, ob \/ ~inb, gv, gty)
        ELSE [last |-> last, folded |-> acc, oob |-> ob \/ ~inb]

\* Line 67 (and 100, 267).
TimeOfStep(k) == IF k # 1 + n_total_jumps THEN global_timestamps[k] ELSE end_time

\* Loop headers of lines 55, 60, 64: the position after step (u, j, k).
NextPos(t, last2) ==
  IF t.k # n_total_jumps + 1
    THEN [t EXCEPT !.k = t.k + 1, !.last = last2]
  ELSE IF t.j # n_nodes - 1
    THEN [t EXCEPT !.j = t.j + 1, !.k = 1, !.last = FirstScanned]
  ELSE IF t.u # get_n_decays - 1
    THEN [t EXCEPT !.u = t.u + 1, !.j = 0, !.k = 1, !.last = FirstScanned]
  ELSE [phase |-> "stats", u |-> 0, j |-> 0, k |-> 1, last |-> FirstScanned]

\* Lines 67-87: one iteration of the k loop of task i.  The read of
\* g[k-1] and the writes of g[k] (task 0 only) touch the buffer shared by
\* all tasks; the iteration is one step, so another task sees g[k] either
\* as allocated or as task 0 left it.
KernStep(i) ==
  /\ pc = "weights"
  /\ wtask[i].phase = "kern"
  /\ \E gv \in {0, end_time}, gty \in {0, wtask[i].j + 1} :
       LET t     == wtask[i]
           t_k   == TimeOfStep(t.k)
           dt    == t_k - global_timestamps[t.k - 1]
           prevg == g[get_index(t.k - 1, t.j, t.u)]
           sc    == Scan(t.last, t.j, t_k - lags[t.u + 1], EmptyBag, FALSE, gv, gty)
       IN  /\ G' = [G EXCEPT ![i][get_index(t.k, t.j, t.u)] =
                                   GVal(dt, prevg, sc.folded)]
           /\ g' = IF i = 0
                     THEN [g EXCEPT ![get_index(t.k, t.j, t.u)] =
                                        ShiftBag(prevg, dt) (+) sc.folded]
                     ELSE g
           /\ wtask' = [wtask EXCEPT ![i] = NextPos(t, sc.last)]
           /\ oob' = (oob \/ sc.oob)
  /\ UNCHANGED << dataVars, weights_computed, lags, Total_events, H1, H2, H3,
                  pc, call, taskres, out, writes, ret,
                  bind_status, bind_arg, weight_runs >>

\* Lines 96-102: H1_i and H2_i.
RECURSIVE H12Loop(_, _, _)
H12Loop(h, k, i) ==
  IF k = 1 + n_total_jumps + 1 THEN h
  ELSE LET n  == global_n[k - 1]
           h1 == IF k # 1 + n_total_jumps
                   THEN [h.h1 EXCEPT ![n] = @ + (IF type_n[k] = i + 1 THEN 1 ELSE 0)]
                   ELSE h.h1
           h2 == [h.h2 EXCEPT ![n] = @ - (TimeOfStep(k) - global_timestamps[k - 1])]
       IN  H12Loop([h1 |-> h1, h2 |-> h2], k + 1, i)

\* Lines 104-110: H3_i[n * U + u] -= G_i[k, i, u]; an entry is kept as the
\* sequence of the values subtracted from it.
RECURSIVE H3Loop(_, _, _, _)
H3Loop(h, u, k, i) ==
  IF u = get_n_decays THEN h
  ELSE IF k = 1 + n_total_jumps + 1 THEN H3Loop(h, u + 1, 1, i)
  ELSE H3Loop([h EXCEPT ![global_n[k - 1] * get_n_decays + u] =
                            Append(@, G[i][get_index(k, i, u)])],
              u, k + 1, i)

\* Lines 93-110 of task i.
StatsStep(i) ==
  /\ pc = "weights"
  /\ wtask[i].phase = "stats"
  /\ LET h0 == [h1 |-> [H1[i] EXCEPT ![global_n[n_total_jumps]] = @ - 1],
                h2 |-> H2[i]]
         h  == H12Loop(h0, 1, i)
     IN  /\ H1' = [H1 EXCEPT ![i] = h.h1]
         /\ H2' = [H2 EXCEPT ![i] = h.h2]
         /\ H3' = [H3 EXCEPT ![i] = H3Loop(H3[i], 0, 1, i)]
  /\ wtask' = [wtask EXCEPT ![i].phase = "done"]
  /\ UNCHANGED << dataVars, weights_computed, lags, Total_events, g, G,
                  pc, call, taskres, out, writes, ret,
                  bind_status, bind_arg, weight_runs, oob >>

\* ---------------------------------------------------------------- coefficients
\* Flat layout of the coefficient vector: mu_i, then alpha_{u,i,j}, then f_i.
get_n_coeffs == n_nodes + n_nodes * n_nodes * get_n_decays + n_nodes * MaxN_of_f

get_alpha_u_i_j_index(u, i, j) ==
  n_nodes + n_nodes * get_n_decays * i + get_n_decays * j + u

\* Lines 165, 238, 321: the entry of f_i[k].  (Variant: the offset
\* i * MaxN_of_f is dropped.)
f_index_shared(i, k) == n_nodes + n_nodes * n_nodes * get_n_decays + k
f_index(i, k) == n_nodes + n_nodes * n_nodes * get_n_decays + i * MaxN_of_f + k

\* Coefficient vectors tried by the optimizer: mu_0 = p[1], every other
\* mu_i = p[2], every alpha = p[3] / ln 2, every f = 1.
CoeffParams == { << 1, 1, 1 >>, << 1, 1, -1 >>, << 0, 1, 1 >>, << 1, -1, -1 >> }

CoeffsOf(p) ==
  [x \in 0..get_n_coeffs - 1 |->
     IF x = 0 THEN p[1]
     ELSE IF x < n_nodes THEN p[2]
     ELSE IF x < n_nodes + n_nodes * n_nodes * get_n_decays THEN p[3]
     ELSE 1]

CoeffChoices == {CoeffsOf(p) : p \in CoeffParams}

\* ---------------------------------------------------------------- intensity
\* Values are scaled by 2^ScaleExp so that every term is an integer:
\* decay_u * exp(-decay_u * d) / ln 2 = (u+1) * 2^(-(u+1)*d).
ScaleExp == get_n_decays * (end_time + 1)

Weight(u, d) == (u + 1) * 2 ^ (ScaleExp - (u + 1) * d)

RECURSIVE SumOver(_, _)
SumOver(S, f) ==
  IF S = {} THEN 0
  ELSE LET x == CHOOSE y \in S : TRUE IN f[x] + SumOver(S \ {x}, f)

GSum(b, u) == SumOver(DOMAIN b, [d \in DOMAIN b |-> b[d] * Weight(u, d)])

\* Lines 186-191 (and 256-261, 281-286): mu_i + sum_j sum_u alpha * g(k, j, u).
Intensity(c, i, k) ==
  LET JU == (0..n_nodes - 1) \X (0..get_n_decays - 1)
  IN  c[i] * 2 ^ ScaleExp
      + SumOver(JU, [p \in JU |-> c[get_alpha_u_i_j_index(p[2], i, p[1])]
                                    * GSum(g[get_index(k, p[1], p[2])], p[2])])

\* Line 193.  (Variant: only a negative sum raises.)
NonPositiveStrict(x) == x < 0
NonPositive(x) == x <= 0

\* Lines 178-180, 184-185: the events of dimension i.
EventsOf(i) == {k \in 1..n_total_jumps : type_n[k] = i + 1}

\* ---------------------------------------------------------------- calls
Pending == [st |-> "pending"]

\* Lines 149 and 326.  (Variant: the flag is ignored.)
NeedWeightsAlways == TRUE
NeedWeights == ~weights_computed

\* loss / grad up to the dispatch of the first parallel pass.  With no
\* cache yet, compute_weights allocates the buffers and starts one
\* compute_weights_dim_i task per dimension.
BeginCall(kind, c) ==
  /\ pc = "idle"
  /\ bind_status = "bound"
  /\ call' = [kind |-> kind, coeffs |-> c]
  /\ IF NeedWeights
       THEN IF n_nodes = 0
              THEN /\ ret' = [kind |-> kind, coeffs |-> c,
                              err |-> "InvalidState", val |-> << >>]
                   /\ UNCHANGED << pc, wtask, taskres, out, writes, cacheVars,
                                   Total_events, weight_runs >>
              ELSE /\ pc' = "weights"
                   /\ Total_events' = TotalEventsOf
                   /\ g' = AllocG
                   /\ G' = [i \in 0..n_nodes - 1 |-> AllocGi]
                   /\ H1' = [i \in 0..n_nodes - 1 |-> AllocH]
                   /\ H2' = [i \in 0..n_nodes - 1 |-> AllocH]
                   /\ H3' = [i \in 0..n_nodes - 1 |-> AllocH3]
                   /\ wtask' = [i \in 0..n_nodes - 1 |-> TaskStart]
                   /\ weight_runs' = weight_runs + 1
                   /\ UNCHANGED << taskres, out, writes, ret >>
       ELSE /\ pc' = "eval"
            /\ taskres' = [i \in 0..n_nodes - 1 |-> Pending]
            /\ out' = [x \in 0..get_n_coeffs - 1 |-> {}]
            /\ writes' = [i \in 0..n_nodes - 1 |-> {}]
            /\ UNCHANGED << wtask, cacheVars, Total_events, weight_runs, ret >>
  /\ UNCHANGED << dataVars, weights_computed, lags, bind_status, bind_arg, oob >>

loss(c) == BeginCall("loss", c)

grad(c) == BeginCall("grad", c)

\* End of compute_weights: every task has returned; the flag is set and the
\* call goes on to its own parallel pass (grad zero-fills out first).
WeightsJoin ==
  /\ pc = "weights"
  /\ \A i \in 0..n_nodes - 1 : wtask[i].phase = "done"
  /\ weights_computed' = TRUE
  /\ pc' = "eval"
  /\ taskres' = [i \in 0..n_nodes - 1 |-> Pending]
  /\ out' = [x \in 0..get_n_coeffs - 1 |-> {}]
  /\ writes' = [i \in 0..n_nodes - 1 |-> {}]
  /\ wtask' = << >>
  /\ UNCHANGED << dataVars, lags, Total_events, cacheVars, call, ret,
                  bind_status, bind_arg, weight_runs, oob >>

\* ---------------------------------------------------------------- loss
\* f_i[n], lines 163-165 and 236-238.
f_of(c, i, n) == c[f_index(i, n)]

AllSteps == 1..n_total_jumps + 1

\* Lines 202-204: sum of mu_i * (t_k - t_{k-1}) * f_i[n[k-1]] over the M
\* event intervals and the terminal one.
BaseCompensator(c, i) ==
  SumOver(AllSteps,
          [k \in AllSteps |-> c[i] * (TimeOfStep(k) - global_timestamps[k - 1])
                                * f_of(c, i, global_n[k - 1])])

\* Lines 160-222.  The returned number -end_time - loss is kept as its
\* parts: the arguments of the logarithms of terms 1 and 2, the integer
\* compensator of terms 3-4, and for terms 5-6 each alpha with the pairs
\* (G_i(k, j, u), f_i[n[k-1]]) it multiplies.
loss_dim_i(i, c) ==
  IF \E k \in EventsOf(i) : NonPositive(Intensity(c, i, k))
    THEN [st |-> "done", err |-> "DomainError", val |-> << >>]
    ELSE [st |-> "done", err |-> "none",
          val |-> [logf  |-> [k \in EventsOf(i) |-> f_of(c, i, global_n[k - 1])],
                   logs  |-> [k \in EventsOf(i) |-> Intensity(c, i, k)],
                   base  |-> BaseCompensator(c, i),
                   inter |-> [p \in (0..n_nodes - 1) \X (0..get_n_decays - 1) |->
                                << c[get_alpha_u_i_j_index(p[2], i, p[1])],
                                   [k \in AllSteps |->
                                      << G[i][get_index(k, p[1], p[2])],
                                         f_of(c, i, global_n[k - 1]) >>] >>],
                   T     |-> end_time]]

\* One task of parallel_map_additive_reduce, lines 152-155.
LossTask(i) ==
  /\ pc = "eval"
  /\ call.kind = "loss"
  /\ taskres[i] = Pending
  /\ taskres' = [taskres EXCEPT ![i] = loss_dim_i(i, call.coeffs)]
  /\ UNCHANGED << dataVars, weights_computed, lags, Total_events, cacheVars,
                  pc, call, wtask, out, writes, ret,
                  bind_status, bind_arg, weight_runs, oob >>

\* Lines 151-156: an error raised by a task leaves loss; otherwise the
\* sum of the task results is divided by Total_events.
LossReturn ==
  /\ pc = "eval"
  /\ call.kind = "loss"
  /\ \A i \in 0..n_nodes - 1 : taskres[i] # Pending
  /\ LET r == IF \E i \in 0..n_nodes - 1 : taskres[i].err # "none"
                THEN [kind |-> "loss", coeffs |-> call.coeffs,
                      err |-> "DomainError", val |-> << >>]
                ELSE [kind |-> "loss", coeffs |-> call.coeffs, err |-> "none",
                      val |-> [sum |-> [i \in 0..n_nodes - 1 |-> taskres[i].val],
                               div |-> Total_events]]
     IN  ret' = r
  /\ pc' = "idle"
  /\ taskres' = << >>
  /\ out' = << >>
  /\ writes' = << >>
  /\ UNCHANGED << dataVars, weights_computed, lags, Total_events, cacheVars,
                  call, wtask, bind_status, bind_arg, weight_runs, oob >>

\* ---------------------------------------------------------------- grad
\* Lines 249-253 and 274-278: tmp_flag.
StepCounts(k, i) == IF k = n_total_jumps + 1 THEN TRUE ELSE type_n[k] = i + 1

\* Line 248: for (k = 1; k < n_total_jumps + 1; ++k).
MuLoop == {k \in 1..n_total_jumps + 2 : k < n_total_jumps + 1}

\* Line 273: for (k = 1; k < 1 + n_total_jumps + 1; ++k).
AlphaLoop == {k \in 1..n_total_jumps + 2 : k < 1 + n_total_jumps + 1}

\* Lines 246-269: out[i] = sum of 1/denominator over the counted steps of
\* the first loop, minus (t_k - t_{k-1}) * f_i[n[k-1]] over every step.  An
\* entry of out is kept as the set of its terms << tag, k >>.
GradMu(i) ==
  {<< "inv", k >> : k \in {x \in MuLoop : StepCounts(x, i)}}
    \cup {<< "dtf", k >> : k \in AllSteps}

\* Lines 271-303: what is added to out[alpha_{u,i,j}].
GradAlpha(i) ==
  {<< "gden", k >> : k \in {x \in AlphaLoop : StepCounts(x, i)}}
    \cup {<< "Gf", k >> : k \in AllSteps}

\* Line 229: the entry of mu_i.
MuIndex(i) == i

\* Lines 289, 301: the entries of alpha_{u,i,j}, all j and u.
AlphaIndices(i) ==
  {get_alpha_u_i_j_index(p[2], i, p[1]) :
     p \in (0..n_nodes - 1) \X (0..get_n_decays - 1)}

\* Lines 320-321: the entries of f_i.
FIndices(i) == {f_index(i, n) : n \in 0..MaxN_of_f - 1}

\* The entries of out that grad_dim_i(i) writes.
GradWrites(i) == {MuIndex(i)} \cup AlphaIndices(i) \cup FIndices(i)

\* Lines 225-322.  No step of grad_dim_i tests the sign of a denominator.
grad_dim_i(i, o) ==
  [x \in DOMAIN o |->
     IF x = MuIndex(i) THEN GradMu(i)
     ELSE IF x \in AlphaIndices(i) THEN o[x] \cup GradAlpha(i)
     ELSE IF x \in FIndices(i) THEN {<< "gradf", x - f_index(i, 0) >>}
     ELSE o[x]]

\* One task of parallel_run, lines 330-335.
GradTask(i) ==
  /\ pc = "eval"
  /\ call.kind = "grad"
  /\ taskres[i] = Pending
  /\ out' = grad_dim_i(i, out)
  /\ writes' = [writes EXCEPT ![i] = GradWrites(i)]
  /\ taskres' = [taskres EXCEPT ![i] = [st |-> "done", err |-> "none", val |-> << >>]]
  /\ UNCHANGED << dataVars, weights_computed, lags, Total_events, cacheVars,
                  pc, call, wtask, ret, bind_status, bind_arg, weight_runs, oob >>

\* Lines 336-339: out is divided by Total_events and negated.
GradReturn ==
  /\ pc = "eval"
  /\ call.kind = "grad"
  /\ \A i \in 0..n_nodes - 1 : taskres[i] # Pending
  /\ LET r == [kind |-> "grad", coeffs |-> call.coeffs, err |-> "none",
               val |-> [terms |-> out, div |-> 0 - Total_events]]
     IN  ret' = r
  /\ pc' = "idle"
  /\ taskres' = << >>
  /\ out' = << >>
  /\ writes' = << >>
  /\ UNCHANGED << dataVars, weights_computed, lags, Total_events, cacheVars,
                  call, wtask, bind_status, bind_arg, weight_runs, oob >>

\* ---------------------------------------------------------------- specifications
\* Kernel specifications given to the constructor (the lags; decay_u is
\* (u+1) * ln 2).
LagChoices == { << 0 >>, << 1 >> }

WeightLagChoices == {<< l >> : l \in 0..MaxTime} \cup { << 0, 1 >> }

\* Lines 6-7: the object as constructed, no data bound.
Constructed(L) ==
  /\ lags \in L
  /\ timestamps = << >>
  /\ n_jumps_per_node = << >>
  /\ n_total_jumps = 0
  /\ n_nodes = 0
  /\ end_time = 0
  /\ weights_computed = FALSE
  /\ global_n = << >>
  /\ global_timestamps = << >>
  /\ type_n = << >>
  /\ Total_events = 0
  /\ g = << >>
  /\ G = << >>
  /\ H1 = << >>
  /\ H2 = << >>
  /\ H3 = << >>
  /\ pc = "idle"
  /\ call = [kind |-> "none"]
  /\ wtask = << >>
  /\ taskres = << >>
  /\ out = << >>
  /\ writes = << >>
  /\ ret = [kind |-> "none"]
  /\ bind_status = "unbound"
  /\ bind_arg = 0
  /\ weight_runs = 0
  /\ oob = FALSE

\* A state sequence of length len: state k mod S on interval k.
LenStates(len) == [k \in 0..len - 1 |-> k % MaxN_of_f]

PositiveTimes(s) == \A d \in 1..Len(s) : \A e \in 1..Len(s[d]) : s[d][e] >= 1

\* Datasets of the evaluation runs: sorted streams of events at times
\* 1..MaxTime, a state sequence of length M + 1, horizon MaxTime + 1.
EvalInputs ==
  {[streams |-> s, gn |-> LenStates(EventCount(s) + 1), T |-> MaxTime + 1] :
     s \in {x \in SortedStreams : PositiveTimes(x)}}

\* Datasets of the weight computation: sorted streams of events at times
\* 0..MaxTime, horizon at or after the last possible event.
WeightInputs ==
  {[streams |-> p[1], gn |-> LenStates(EventCount(p[1]) + 1), T |-> p[2]] :
     p \in SortedStreams \X {MaxTime, MaxTime + 1}}

\* Arguments of set_data: any streams, a state sequence of length M, M + 1
\* or M + 2.
BindInputs ==
  UNION {{[streams |-> s, gn |-> LenStates(len), T |-> MaxTime + 1] :
            len \in EventCount(s)..EventCount(s) + 2} : s \in AllStreams}

\* A second dataset bound to a used object is one of the smaller ones.
Rebindable(F) ==
  IF n_nodes = 0 THEN F ELSE {inp \in F : EventCount(inp.streams) < MaxEvents}

SetData(F) ==
  \E inp \in Rebindable(F) : \E garbage \in 0..MaxN_of_f :
    set_data(inp.streams, inp.gn, inp.T, garbage)

Bind == SetData(EvalInputs)

Loss == \E c \in CoeffChoices : loss(c)

Grad == \E c \in CoeffChoices : grad(c)

Tasks == 0..n_nodes - 1

Init == Constructed(LagChoices)

Next ==
  \/ Bind
  \/ Loss
  \/ Grad
  \/ \E i \in Tasks : KernStep(i)
  \/ \E i \in Tasks : StatsStep(i)
  \/ WeightsJoin
  \/ \E i \in Tasks : LossTask(i)
  \/ LossReturn
  \/ \E i \in Tasks : GradTask(i)
  \/ GradReturn

\* The whole life of one object: binds, loss and grad calls.
Spec == Init /\ [][Next]_vars

\* set_data alone, on every kind of argument.
InitBind == Constructed(LagChoices)

BindAny == SetData(BindInputs)

NextBind == BindAny

SpecBind == InitBind /\ [][NextBind]_vars

\* One bind and the concurrent weight computation of the first call.
InitWeights == Constructed(WeightLagChoices)

BindForWeights == SetData(WeightInputs)

FirstLoss == loss(CoeffsOf(<< 1, 1, 1 >>))

NextWeights ==
  \/ BindForWeights
  \/ FirstLoss
  \/ \E i \in Tasks : KernStep(i)
  \/ \E i \in Tasks : StatsStep(i)
  \/ WeightsJoin

SpecWeights == InitWeights /\ [][NextWeights]_vars

\* ---------------------------------------------------------------- properties
Bound == n_nodes > 0

Kernels == 0..get_n_decays - 1

\* C1: loss ends with the DomainError, and no value, exactly when
\* mu_i + sum alpha * g(k, j, u) <= 0 at some event k of some modelled
\* dimension i; otherwise it returns a value and no error.
LossErrorIffNonPositive ==
  (ret.kind = "loss" /\ Bound) =>
     /\ ret.err = "DomainError"
          <=> \E i \in Tasks : \E k \in EventsOf(i) : Intensity(ret.coeffs, i, k) <= 0
     /\ ret.err \in {"DomainError", "none"}
     /\ ret.err = "DomainError" <=> ret.val = << >>

\* A loss call has raised on an intensity that is exactly zero at an event
\* while no intensity is negative.
LossRaisedAtZero ==
  /\ ret.kind = "loss"
  /\ Bound
  /\ ret.err = "DomainError"
  /\ \E i \in Tasks : \E k \in EventsOf(i) : Intensity(ret.coeffs, i, k) = 0
  /\ \A i \in Tasks : \A k \in EventsOf(i) : Intensity(ret.coeffs, i, k) >= 0

\* C2: grad ends with the DomainError whenever mu_i + sum alpha * g is
\* negative at some event of a modelled dimension i.
GradRaisesOnNegative ==
  (/\ ret.kind = "grad"
   /\ Bound
   /\ \E i \in Tasks : \E k \in EventsOf(i) : Intensity(ret.coeffs, i, k) < 0)
    => ret.err = "DomainError"

CallStarted == pc # "idle" \/ ret.kind # "none"

\* C3: between two binds the weights are computed exactly once, by the
\* first call and before any loss / grad task reads them; once computed,
\* no step of a call changes g, G, H1, H2 or H3; and a call repeating the
\* kind and coefficients of the call returned before it returns the same.
WeightsOnceThenReadOnly ==
  [][ /\ weight_runs' <= 1
      /\ (Bound' /\ CallStarted') => weight_runs' = 1
      /\ (pc' = "eval") => (weights_computed' /\ weight_runs' = 1)
      /\ (weights_computed /\ weights_computed') => UNCHANGED cacheVars
      /\ (/\ pc = "eval" /\ pc' = "idle"
          /\ ret.kind = call.kind /\ ret.coeffs = call.coeffs) => ret' = ret
    ]_vars

\* A call repeating the previous call's kind and coefficients is about to
\* return, the weights having been computed once.
RepeatedCallReturns ==
  /\ pc = "eval"
  /\ ret.kind = call.kind
  /\ ret.coeffs = call.coeffs
  /\ \A i \in Tasks : taskres[i] # Pending
  /\ weight_runs = 1
  /\ n_total_jumps = MaxEvents

\* C4: a bind whose state sequence has a length other than M + 1 fails and
\* binds nothing.
BindRejectsLengthMismatch ==
  bind_status = "bound" => bind_arg = n_total_jumps + 1

\* The reference for C5: the concurrent weight tasks leave g, every G[i] and every H3[i] as a
\* run of the tasks in the order 0..D-1 does.  In that run every task
\* reads the final g(k-1, j, u).
SeqG(i, k, j, u) ==
  GVal(TimeOfStep(k) - global_timestamps[k - 1],
       g[get_index(k - 1, j, u)],
       G[i][get_index(k, j, u)].new)

RECURSIVE SeqH3Entry(_, _, _, _)
SeqH3Entry(i, n, u, k) ==
  IF k = 0 THEN << >>
  ELSE IF global_n[k - 1] = n
         THEN Append(SeqH3Entry(i, n, u, k - 1), SeqG(i, k, i, u))
         ELSE SeqH3Entry(i, n, u, k - 1)

\* C5: after the concurrent weight tasks have all finished, g equals the
\* sequential g and every G[i], H3[i] equals the value built from it.
WeightsAsSequential ==
  (pc = "eval" /\ ~oob) =>
     \A i \in Tasks : \A u \in Kernels :
        /\ \A j \in Tasks : \A k \in AllSteps :
              G[i][get_index(k, j, u)] = SeqG(i, k, j, u)
        /\ \A n \in 0..MaxN_of_f - 1 :
              H3[i][n * get_n_decays + u] = SeqH3Entry(i, n, u, n_total_jumps + 1)

\* C6: the grad tasks of different dimensions write disjoint sets of
\* entries of out, all inside 0..D + D*D*U + D*S - 1.
GradWritesDisjoint ==
  (pc = "eval" /\ call.kind = "grad") =>
     /\ \A i \in Tasks : writes[i] \subseteq 0..(n_nodes + n_nodes * n_nodes * get_n_decays
                                                  + n_nodes * MaxN_of_f - 1)
     /\ \A i \in Tasks : \A i2 \in Tasks :
           i # i2 => writes[i] \cap writes[i2] = {}

\* Two grad tasks have both written their entries of out.
TwoGradTasksWrote ==
  /\ pc = "eval"
  /\ call.kind = "grad"
  /\ n_nodes = 2
  /\ writes[0] # {}
  /\ writes[1] # {}

\* The fold rule of C7 (strict = TRUE): in the pass of kernel u and source
\* dimension j an event e of dimension j is folded into g and G at the
\* first step k of 1..M+1 with t_e < t_k - lag_u and at no other step; the
\* events that have contributed to g(k, j, u) are exactly those with
\* t_e < t_k - lag_u; with M >= 1 and no such event, g(k, j, u) and
\* G(k, j, u) are zero.  An event is recognised by the delay
\* t_k - lag_u - t_e of its term; events of one dimension at one time share
\* it.  With strict = FALSE the gate is t_e <= t_k - lag_u.
Eligible(e, k, u, strict) ==
  IF strict THEN global_timestamps[e] < TimeOfStep(k) - lags[u + 1]
            ELSE global_timestamps[e] <= TimeOfStep(k) - lags[u + 1]

IsFirstStep(e, k, u, strict) ==
  /\ Eligible(e, k, u, strict)
  /\ \A k2 \in 1..k - 1 : ~Eligible(e, k2, u, strict)

SameTime(e, j) ==
  Cardinality({e2 \in EventsOf(j) : global_timestamps[e2] = global_timestamps[e]})

FoldClaim(strict) ==
  pc = "eval" =>
    \A u \in Kernels : \A j \in Tasks : \A k \in AllSteps :
      LET x  == get_index(k, j, u)
          dl == [e \in EventsOf(j) |->
                   TimeOfStep(k) - lags[u + 1] - global_timestamps[e]]
      IN  /\ \A e \in EventsOf(j) :
                /\ CopiesIn(dl[e], g[x])
                     = IF Eligible(e, k, u, strict) THEN SameTime(e, j) ELSE 0
                /\ \A i \in Tasks :
                      CopiesIn(dl[e], G[i][x].new)
                        = IF IsFirstStep(e, k, u, strict) THEN SameTime(e, j) ELSE 0
          /\ n_total_jumps >= 1 =>
                /\ BagToSet(g[x]) \subseteq {dl[e] : e \in EventsOf(j)}
                /\ \A i \in Tasks :
                      BagToSet(G[i][x].new) \subseteq {dl[e] : e \in EventsOf(j)}
                /\ (\A e \in EventsOf(j) : ~Eligible(e, k, u, strict)) =>
                      /\ g[x] = EmptyBag
                      /\ \A i \in Tasks : G[i][x] = GZero

StepsOf(terms, tag) == {t[2] : t \in {t2 \in terms : t2[1] = tag}}

\* C8: in grad_dim_i the steps at which 1/denominator is added to the
\* gradient of mu_i are the events of dimension i and the terminal step
\* M + 1, and the same steps add g/denominator to every alpha_{u,i,j}.
GradStepSets ==
  (pc = "eval" /\ call.kind = "grad") =>
     \A i \in Tasks :
        taskres[i] # Pending =>
          /\ StepsOf(out[MuIndex(i)], "inv") = EventsOf(i) \cup {n_total_jumps + 1}
          /\ \A x \in AlphaIndices(i) :
                StepsOf(out[x], "gden") = StepsOf(out[MuIndex(i)], "inv")

HasData == timestamps # << >>

\* C9: after set_data the merged timeline is time-ordered, index 0 is the
\* virtual start (time 0, type 0), and the pairs (time, type) at 1..M are
\* the input events with their 1-based stream labels, each exactly once.
MergeIsLabelledSort ==
  HasData =>
     /\ DOMAIN global_timestamps = 0..n_total_jumps
     /\ DOMAIN type_n = 0..n_total_jumps
     /\ global_timestamps[0] = 0
     /\ type_n[0] = 0
     /\ \A k \in 1..n_total_jumps : global_timestamps[k - 1] <= global_timestamps[k]
     /\ \A k \in 1..n_total_jumps : type_n[k] \in 1..Len(timestamps)
     /\ \A d \in 1..Len(timestamps) :
           /\ Cardinality({k \in 1..n_total_jumps : type_n[k] = d}) = Len(timestamps[d])
           /\ \A t \in 0..MaxTime :
                 Cardinality({k \in 1..n_total_jumps :
                                global_timestamps[k] = t /\ type_n[k] = d})
                   = Cardinality({x \in 1..Len(timestamps[d]) : timestamps[d][x] = t})

\* A bound dataset whose merge reordered the concatenation: a later stream
\* holds the earliest event, and one event lies at time 0.
MergeReordered ==
  /\ HasData
  /\ n_total_jumps >= 2
  /\ type_n[1] > type_n[2]
  /\ global_timestamps[1] = 0

\* C10: every read of global_timestamps[last_scanned_index] and
\* type_n[last_scanned_index] uses an index in 0..M, and the pointer stays
\* in 1..M+1.
ScanReadsInBounds ==
  /\ ~oob
  /\ \A i \in DOMAIN wtask :
        wtask[i].phase = "kern" => wtask[i].last \in 1..n_total_jumps + 1

====
